---- MODULE Spec2Model ----
(***************************************************************************)
(* gravatar-rs: the Generator configuration value, its six chainable       *)
(* setters, hash_email, query_parameters and generate (src/source/lib.rs), *)
(* and the calls the tests make on them (src/tests/lib.rs).                *)
(*                                                                         *)
(* A text (Rust String / &str) is a sequence of Unicode code points; its   *)
(* bytes are its UTF-8 encoding.  An Option<T> is None or <<v>>.           *)
(***************************************************************************)
EXTENDS Integers, Sequences, FiniteSets

VARIABLES
  gen,    \* the Generator value the caller holds
  prev,   \* the Generator value the last operation was applied to
  op,     \* the last operation: "default", a setter, or a &self method
  arg,    \* its argument (NoArg when it takes none)
  out,    \* the text it returned (empty for the operations returning Self)
  first,  \* what query_parameters returned first on this gen, if called
  calls,  \* how often it was called on this gen (counted up to MaxCalls)
  ha,     \* the latest hash_email call: [email, hash]
  hb      \* the hash_email call before it

vars == <<gen, prev, op, arg, out, first, calls, ha, hb>>

(***************************************************************************)
(* Bounds of the model.                                                    *)
(***************************************************************************)
\* longest default_image text drawn over ImageChars
MaxImageLen == 1
\* image_size is drawn from -MaxSize .. MaxSize (and the tests' 128)
MaxSize == 1
\* longest email text drawn over EmailChars
MaxEmailLen == 1
\* query_parameters calls on one value are counted up to MaxCalls
MaxCalls == 2
\* longest text drawn over EncodeChars for the percent-encoding round trip
MaxEncodeLen == 3

(***************************************************************************)
(* Texts.                                                                  *)
(***************************************************************************)
None == <<>>

Some(v) == <<v>>

RECURSIVE Concat(_)
\* the concatenation of a sequence of texts (format!'s output)
Concat(parts) ==
  IF parts = <<>> THEN <<>> ELSE Head(parts) \o Concat(Tail(parts))

\* all texts over chars of length at most n
TextsUpTo(chars, n) == UNION {[1..k -> chars] : k \in 0..n}

RECURSIVE Join(_, _)
\* Vec<String>::join(sep)
Join(parts, sep) ==
  IF parts = <<>> THEN <<>>
  ELSE IF Len(parts) = 1 THEN parts[1]
  ELSE parts[1] \o sep \o Join(Tail(parts), sep)

(***************************************************************************)
(* Unicode as std sees it, on the code points the model draws.             *)
(***************************************************************************)
\* char::is_whitespace: the code points with the White_Space property
IsWhitespace(c) ==
  \/ c \in 9..13
  \/ c \in {32, 133, 160, 5760, 8232, 8233, 8239, 8287, 12288}
  \/ c \in 8192..8202

RECURSIVE TrimStart(_)
TrimStart(s) ==
  IF s # <<>> /\ IsWhitespace(Head(s)) THEN TrimStart(Tail(s)) ELSE s

RECURSIVE TrimEnd(_)
TrimEnd(s) ==
  IF s # <<>> /\ IsWhitespace(s[Len(s)])
  THEN TrimEnd(SubSeq(s, 1, Len(s) - 1))
  ELSE s

\* str::trim
Trim(s) == TrimEnd(TrimStart(s))

\* char::to_lowercase on Basic Latin, Latin-1 and the two code points that
\* to_uppercase takes Latin-1 letters to (U+0178, U+039C)
LowerChar(c) ==
  IF c \in 65..90 THEN <<c + 32>>
  ELSE IF c \in 192..222 /\ c # 215 THEN <<c + 32>>
  ELSE IF c = 376 THEN <<255>>
  ELSE IF c = 924 THEN <<956>>
  ELSE <<c>>

\* char::to_uppercase on the same code points: U+00DF (sharp s) has the
\* two-letter upper case "SS", U+00B5 (micro sign) goes to Greek capital mu
UpperChar(c) ==
  IF c \in 97..122 THEN <<c - 32>>
  ELSE IF c \in 224..254 /\ c # 247 THEN <<c - 32>>
  ELSE IF c = 223 THEN <<83, 83>>
  ELSE IF c = 255 THEN <<376>>
  ELSE IF c = 181 THEN <<924>>
  ELSE IF c = 956 THEN <<924>>
  ELSE <<c>>

RECURSIVE to_lowercase(_)
\* str::to_lowercase
to_lowercase(s) ==
  IF s = <<>> THEN <<>> ELSE LowerChar(Head(s)) \o to_lowercase(Tail(s))

RECURSIVE to_uppercase(_)
\* str::to_uppercase
to_uppercase(s) ==
  IF s = <<>> THEN <<>> ELSE UpperChar(Head(s)) \o to_uppercase(Tail(s))

\* the UTF-8 bytes of one code point (below U+10000)
Utf8Char(c) ==
  IF c < 128 THEN <<c>>
  ELSE IF c < 2048 THEN <<192 + (c \div 64), 128 + (c % 64)>>
  ELSE <<224 + (c \div 4096), 128 + ((c \div 64) % 64), 128 + (c % 64)>>

RECURSIVE Utf8(_)
\* the bytes of a String
Utf8(s) == IF s = <<>> THEN <<>> ELSE Utf8Char(Head(s)) \o Utf8(Tail(s))

\* one hexadecimal digit as a character, lower case ({:x}) or upper case
HexDigit(n, upper) ==
  IF n < 10 THEN 48 + n ELSE IF upper THEN 55 + n ELSE 87 + n

(***************************************************************************)
(* md5::compute (RFC 1321).  A 32-bit word is <<high half, low half>>,     *)
(* each half in 0..65535.                                                  *)
(***************************************************************************)
RECURSIVE AndBits(_, _)
AndBits(a, b) ==
  IF a = 0 \/ b = 0 THEN 0
  ELSE (a % 2) * (b % 2) + 2 * AndBits(a \div 2, b \div 2)

\* bitwise and of two 4-bit values, tabulated
AndNibble == [p \in (0..15) \X (0..15) |-> AndBits(p[1], p[2])]

\* bitwise and of two 16-bit values, nibble by nibble
And16(a, b) ==
  AndNibble[<<a % 16, b % 16>>]
    + 16 * AndNibble[<<(a \div 16) % 16, (b \div 16) % 16>>]
    + 256 * AndNibble[<<(a \div 256) % 16, (b \div 256) % 16>>]
    + 4096 * AndNibble[<<a \div 4096, b \div 4096>>]

Or16(a, b) == a + b - And16(a, b)

Xor16(a, b) == a + b - 2 * And16(a, b)

WAnd(x, y) == <<And16(x[1], y[1]), And16(x[2], y[2])>>

WOr(x, y) == <<Or16(x[1], y[1]), Or16(x[2], y[2])>>

WXor(x, y) == <<Xor16(x[1], y[1]), Xor16(x[2], y[2])>>

WNot(x) == <<65535 - x[1], 65535 - x[2]>>

\* wrapping_add
WAdd(x, y) ==
  LET lo == x[2] + y[2]
  IN  <<(x[1] + y[1] + (lo \div 65536)) % 65536, lo % 65536>>

RECURSIVE Pow2(_)
Pow2(n) == IF n = 0 THEN 1 ELSE 2 * Pow2(n - 1)

\* rotate_left
WRotl(x, s) ==
  LET y == IF s >= 16 THEN <<x[2], x[1]>> ELSE x
      r == s % 16
  IN  IF r = 0 THEN y
      ELSE <<((y[1] * Pow2(r)) % 65536) + (y[2] \div Pow2(16 - r)),
             ((y[2] * Pow2(r)) % 65536) + (y[1] \div Pow2(16 - r))>>

\* the sine table: T[i] = floor(2^32 * abs(sin(i)))
MD5T ==
  << <<55146, 42104>>, <<59591, 46934>>, <<9248, 28891>>, <<49597, 52974>>,
     <<62844, 4015>>, <<18311, 50730>>, <<43056, 17939>>, <<64838, 38145>>,
     <<27008, 39128>>, <<35652, 63407>>, <<65535, 23473>>, <<35164, 55230>>,
     <<27536, 4386>>, <<64920, 29075>>, <<42617, 17294>>, <<18868, 2081>>,
     <<63006, 9570>>, <<49216, 45888>>, <<9822, 23121>>, <<59830, 51114>>,
     <<54831, 4189>>, <<580, 5203>>, <<55457, 59009>>, <<59347, 64456>>,
     <<8673, 52710>>, <<49975, 2006>>, <<62677, 3463>>, <<17754, 5357>>,
     <<43491, 59653>>, <<64751, 41976>>, <<26479, 729>>, <<36138, 19594>>,
     <<65530, 14658>>, <<34673, 63105>>, <<28061, 24866>>, <<64997, 14348>>,
     <<42174, 59972>>, <<19422, 53161>>, <<63163, 19296>>, <<48831, 48240>>,
     <<10395, 32454>>, <<60065, 10234>>, <<54511, 12421>>, <<1160, 7429>>,
     <<55764, 53305>>, <<59099, 39397>>, <<8098, 31992>>, <<50348, 22117>>,
     <<62505, 8772>>, <<17194, 65431>>, <<43924, 9127>>, <<64659, 41017>>,
     <<25947, 22979>>, <<36620, 52370>>, <<65519, 62589>>, <<34180, 24017>>,
     <<28584, 32335>>, <<65068, 59104>>, <<41729, 17172>>, <<19976, 4513>>,
     <<63315, 32386>>, <<48442, 62005>>, <<10967, 53947>>, <<60294, 54161>> >>

\* the per-round shift amounts
MD5S ==
  << <<7, 12, 17, 22>>, <<5, 9, 14, 20>>, <<4, 11, 16, 23>>,
     <<6, 10, 15, 21>> >>

\* the initial chaining value A, B, C, D
MD5IV ==
  << <<26437, 8961>>, <<61389, 43913>>, <<39098, 56574>>, <<4146, 21622>> >>

\* the message padded to a multiple of 64 bytes: 0x80, zeros, then the bit
\* length as 64 bits, little endian (messages here are far below 2^13 bytes)
MD5Pad(bytes) ==
  LET n     == Len(bytes)
      zeros == (119 - (n % 64)) % 64
      bits  == 8 * n
  IN  bytes \o <<128>> \o [i \in 1..zeros |-> 0]
        \o <<bits % 256, bits \div 256, 0, 0, 0, 0, 0, 0>>

\* word k (0..15) of a 64-byte block, little endian
MD5Word(block, k) ==
  <<block[4 * k + 3] + 256 * block[4 * k + 4],
    block[4 * k + 1] + 256 * block[4 * k + 2]>>

\* the round function and the message word index of step i (0..63)
MD5Mix(i, b, c, d) ==
  IF i < 16 THEN WOr(WAnd(b, c), WAnd(WNot(b), d))
  ELSE IF i < 32 THEN WOr(WAnd(b, d), WAnd(c, WNot(d)))
  ELSE IF i < 48 THEN WXor(b, WXor(c, d))
  ELSE WXor(c, WOr(b, WNot(d)))

MD5Index(i) ==
  IF i < 16 THEN i
  ELSE IF i < 32 THEN (5 * i + 1) % 16
  ELSE IF i < 48 THEN (3 * i + 5) % 16
  ELSE (7 * i) % 16

\* step i (0..63) of the compression of one block, on st = <<a, b, c, d>>
MD5Step(block, st, i) ==
  LET a == st[1]
      b == st[2]
      c == st[3]
      d == st[4]
      f == WAdd(WAdd(a, MD5Mix(i, b, c, d)),
                WAdd(MD5T[i + 1], MD5Word(block, MD5Index(i))))
      s == MD5S[(i \div 16) + 1][(i % 4) + 1]
  IN  <<d, WAdd(b, WRotl(f, s)), b, c>>

RECURSIVE MD5Steps(_, _, _, _)
\* steps lo..hi-1 of the compression of one block, in order; the first half
\* is evaluated (Len) before the second half starts from it
MD5Steps(block, st, lo, hi) ==
  IF hi = lo + 1 THEN MD5Step(block, st, lo)
  ELSE LET mid  == (lo + hi) \div 2
           left == MD5Steps(block, st, lo, mid)
       IN  IF Len(left) = 4 THEN MD5Steps(block, left, mid, hi) ELSE left

RECURSIVE MD5Blocks(_, _)
MD5Blocks(padded, st) ==
  IF padded = <<>> THEN st
  ELSE LET r == MD5Steps(SubSeq(padded, 1, 64), st, 0, 64)
       IN  MD5Blocks(SubSeq(padded, 65, Len(padded)),
                     <<WAdd(st[1], r[1]), WAdd(st[2], r[2]),
                       WAdd(st[3], r[3]), WAdd(st[4], r[4])>>)

\* a word's four bytes, little endian
WBytes(x) == <<x[2] % 256, x[2] \div 256, x[1] % 256, x[1] \div 256>>

\* md5::compute: the 16 bytes of the digest
md5_compute(bytes) ==
  LET st == MD5Blocks(MD5Pad(bytes), MD5IV)
  IN  WBytes(st[1]) \o WBytes(st[2]) \o WBytes(st[3]) \o WBytes(st[4])

RECURSIVE LowerHexNoPad(_)
LowerHexNoPad(digest) ==
  IF digest = <<>> THEN <<>>
  ELSE (IF Head(digest) < 16 THEN <<>>
        ELSE <<HexDigit(Head(digest) \div 16, FALSE)>>)
       \o <<HexDigit(Head(digest) % 16, FALSE)>>
       \o LowerHexNoPad(Tail(digest))

RECURSIVE LowerHex(_)
\* impl LowerHex for md5::Digest: every byte as two lower-case hex digits
LowerHex(digest) ==
  IF digest = <<>> THEN <<>>
  ELSE <<HexDigit(Head(digest) \div 16, FALSE),
         HexDigit(Head(digest) % 16, FALSE)>>
       \o LowerHex(Tail(digest))

(***************************************************************************)
(* Literals of the source and of its tests.                                *)
(***************************************************************************)
\* "www.gravatar.com"
DefaultBaseUrl ==
  <<119, 119, 119, 46, 103, 114, 97, 118, 97, 116, 97, 114, 46, 99, 111,
    109>>

\* "cdn.libravatar.org"
LibravatarBaseUrl ==
  <<99, 100, 110, 46, 108, 105, 98, 114, 97, 118, 97, 116, 97, 114, 46, 111,
    114, 103>>

\* "helllo@holllo.cc"
HOLLLO_EMAIL ==
  <<104, 101, 108, 108, 108, 111, 64, 104, 111, 108, 108, 108, 111, 46, 99,
    99>>

\* "me@bauke.xyz"
BAUKE_EMAIL == <<109, 101, 64, 98, 97, 117, 107, 101, 46, 120, 121, 122>>

\* "identicon"
Identicon == <<105, 100, 101, 110, 116, 105, 99, 111, 110>>

\* "pg"
Pg == <<112, 103>>

\* "https://"
Scheme == <<104, 116, 116, 112, 115, 58, 47, 47>>

\* "/avatar/"
AvatarPath == <<47, 97, 118, 97, 116, 97, 114, 47>>

\* ".jpg"
Jpg == <<46, 106, 112, 103>>

(***************************************************************************)
(* The inputs the model draws.                                             *)
(***************************************************************************)
\* the default host, the tests' other host, and the empty text
BaseUrls == {DefaultBaseUrl, LibravatarBaseUrl, <<>>}

\* '&', '/'
ImageChars == {38, 47}

DefaultImages == TextsUpTo(ImageChars, MaxImageLen) \cup {Identicon}

\* "pg" and "&=?# "
Ratings == {Pg, <<38, 61, 63, 35, 32>>}

ImageSizes == (-MaxSize .. MaxSize) \cup {128}

Emails == {HOLLLO_EMAIL, BAUKE_EMAIL}

\* ' ', 'a', sharp s
EmailChars == {32, 97, 223}

\* format!("  {email}  ")
Pad(email) == <<32, 32>> \o email \o <<32, 32>>

\* every text, as it is, padded with spaces and in upper case
HashInputs ==
  LET base == TextsUpTo(EmailChars, MaxEmailLen) \cup Emails
  IN  base \cup {Pad(e) : e \in base} \cup {to_uppercase(e) : e \in base}

\* ' ', '%', '/', 'a', e acute (two bytes), the euro sign (three bytes)
EncodeChars == {32, 37, 47, 97, 233, 8364}

EncodeTexts == TextsUpTo(EncodeChars, MaxEncodeLen)

(***************************************************************************)
(* Generator.                                                              *)
(***************************************************************************)
\* pub struct Generator, on the values the model draws
Generators ==
  [base_url               : BaseUrls,
   default_image          :
     {None} \cup {Some(v) : v \in DefaultImages \cup EncodeTexts},
   force_default          : BOOLEAN,
   image_size             : {None} \cup {Some(v) : v \in ImageSizes},
   include_file_extension : BOOLEAN,
   rating                 : {None} \cup {Some(v) : v \in Ratings}]

\* what #[derive(Default)] would give: an empty base_url
DerivedDefault ==
  [base_url               |-> <<>>,
   default_image          |-> None,
   force_default          |-> FALSE,
   image_size             |-> None,
   include_file_extension |-> FALSE,
   rating                 |-> None]

Default ==
  [base_url               |-> DefaultBaseUrl,
   default_image          |-> None,
   force_default          |-> FALSE,
   image_size             |-> None,
   include_file_extension |-> FALSE,
   rating                 |-> None]

\* the digests of the canonical forms of the inputs, computed once
Digest ==
  [m \in {to_lowercase(Trim(e)) : e \in HashInputs} |-> md5_compute(Utf8(m))]

\* md5::compute on a text's bytes
md5_of(text) ==
  IF text \in DOMAIN Digest THEN Digest[text] ELSE md5_compute(Utf8(text))

\* hash_email without the trim
hash_email_untrimmed(email) == LowerHex(md5_of(to_lowercase(email)))

hash_email(email) == LowerHex(md5_of(to_lowercase(Trim(email))))

RECURSIVE Digits(_)
Digits(n) ==
  IF n < 10 THEN <<48 + n>> ELSE Digits(n \div 10) \o <<48 + (n % 10)>>

\* <i32 as Display>::to_string
i32_to_string(n) == IF n < 0 THEN <<45>> \o Digits(-n) ELSE Digits(n)

\* an encoder that also keeps '/' (the path-safe set)
IsPathSafe(b) ==
  b \in (48..57) \cup (65..90) \cup (97..122) \cup {45, 46, 47, 95, 126}

\* urlencoding passes ASCII letters, digits, '-', '.', '_' and '~' through
IsUnreserved(b) ==
  b \in (48..57) \cup (65..90) \cup (97..122) \cup {45, 46, 95, 126}

RECURSIVE EncodeBytes(_)
\* every other byte becomes '%' and two upper-case hex digits
EncodeBytes(bytes) ==
  IF bytes = <<>> THEN <<>>
  ELSE (IF IsUnreserved(Head(bytes)) THEN <<Head(bytes)>>
        ELSE <<37, HexDigit(Head(bytes) \div 16, TRUE),
               HexDigit(Head(bytes) % 16, TRUE)>>)
       \o EncodeBytes(Tail(bytes))

\* encode without the escaping: data.to_string() alone
encode_verbatim(text) == text

\* query_parameters's encode, on data.to_string()
encode(text) == EncodeBytes(Utf8(text))

\* query_parameters with the size pushed before the force flag
query_parameters_size_first(g) ==
  LET d == IF g.default_image # None
           THEN << <<100, 61>> \o encode(g.default_image[1]) >>
           ELSE <<>>
      f == IF g.force_default THEN << <<102, 61, 121>> >> ELSE <<>>
      s == IF g.image_size # None
           THEN << <<115, 61>> \o encode(i32_to_string(g.image_size[1])) >>
           ELSE <<>>
      r == IF g.rating # None
           THEN << <<114, 61>> \o encode(g.rating[1]) >>
           ELSE <<>>
      pushed == d \o s \o f \o r
  IN  IF pushed = <<>> THEN <<>> ELSE <<63>> \o Join(pushed, <<38>>)

\* query_parameters without the is_empty check
query_parameters_unchecked(g) ==
  LET d == IF g.default_image # None
           THEN << <<100, 61>> \o encode(g.default_image[1]) >>
           ELSE <<>>
      f == IF g.force_default THEN << <<102, 61, 121>> >> ELSE <<>>
      s == IF g.image_size # None
           THEN << <<115, 61>> \o encode(i32_to_string(g.image_size[1])) >>
           ELSE <<>>
      r == IF g.rating # None
           THEN << <<114, 61>> \o encode(g.rating[1]) >>
           ELSE <<>>
      pushed == d \o f \o s \o r
  IN  <<63>> \o Join(pushed, <<38>>)

query_parameters(g) ==
  LET d == IF g.default_image # None
           THEN << <<100, 61>> \o encode(g.default_image[1]) >>
           ELSE <<>>
      f == IF g.force_default THEN << <<102, 61, 121>> >> ELSE <<>>
      s == IF g.image_size # None
           THEN << <<115, 61>> \o encode(i32_to_string(g.image_size[1])) >>
           ELSE <<>>
      r == IF g.rating # None
           THEN << <<114, 61>> \o encode(g.rating[1]) >>
           ELSE <<>>
      pushed == d \o f \o s \o r
  IN  IF pushed = <<>> THEN <<>> ELSE <<63>> \o Join(pushed, <<38>>)

\* generate with the extension after the query
generate_extension_last(g, email) ==
  LET file_extension == IF g.include_file_extension THEN Jpg ELSE <<>>
  IN  Concat(<<Scheme, g.base_url, AvatarPath, hash_email(email),
               query_parameters(g), file_extension>>)

generate(g, email) ==
  LET file_extension == IF g.include_file_extension THEN Jpg ELSE <<>>
  IN  Concat(<<Scheme, g.base_url, AvatarPath, hash_email(email),
               file_extension, query_parameters(g)>>)

\* set_base_url with ..Self::default() for ..self
set_base_url_from_default(g, base_url) ==
  [Default EXCEPT !.base_url = base_url]

set_base_url(g, base_url) == [g EXCEPT !.base_url = base_url]

set_default_image(g, default_image) ==
  [g EXCEPT !.default_image = Some(default_image)]

set_force_default(g, force_default) ==
  [g EXCEPT !.force_default = force_default]

\* set_image_size with ..Self::default() for ..self
set_image_size_from_default(g, image_size) ==
  [Default EXCEPT !.image_size = Some(image_size)]

set_image_size(g, image_size) == [g EXCEPT !.image_size = Some(image_size)]

set_include_file_extension(g, include_file_extension) ==
  [g EXCEPT !.include_file_extension = include_file_extension]

set_rating(g, rating) == [g EXCEPT !.rating = Some(rating)]

(***************************************************************************)
(* The calls.                                                              *)
(***************************************************************************)
\* no text: code points are not negative
NoArg == <<-1>>

NoCall == [email |-> NoArg, hash |-> <<>>]

\* a setter consumes gen and returns the new value; no text is returned
Built(g, name, a) ==
  /\ gen' = g
  /\ prev' = gen
  /\ op' = name
  /\ arg' = a
  /\ out' = <<>>
  /\ first' = None
  /\ calls' = 0
  /\ UNCHANGED <<ha, hb>>

SetBaseUrl ==
  \E v \in BaseUrls : Built(set_base_url(gen, v), "set_base_url", v)

SetDefaultImage ==
  \E v \in DefaultImages :
    Built(set_default_image(gen, v), "set_default_image", v)

SetForceDefault ==
  \E v \in BOOLEAN :
    Built(set_force_default(gen, v), "set_force_default", v)

SetImageSize ==
  \E v \in ImageSizes : Built(set_image_size(gen, v), "set_image_size", v)

SetIncludeFileExtension ==
  \E v \in BOOLEAN :
    Built(set_include_file_extension(gen, v), "set_include_file_extension",
          v)

SetRating == \E v \in Ratings : Built(set_rating(gen, v), "set_rating", v)

\* generator.query_parameters()
QueryParameters ==
  /\ out' = query_parameters(gen)
  /\ first' = IF first = None THEN Some(out') ELSE first
  /\ calls' = IF calls < MaxCalls THEN calls + 1 ELSE calls
  /\ op' = "query_parameters"
  /\ arg' = NoArg
  /\ prev' = gen
  /\ UNCHANGED <<gen, ha, hb>>

\* generator.generate(email)
Generate ==
  \E email \in Emails :
    /\ out' = generate(gen, email)
    /\ op' = "generate"
    /\ arg' = email
    /\ prev' = gen
    /\ UNCHANGED <<gen, first, calls, ha, hb>>

\* Generator::hash_email(email)
HashEmail ==
  \E email \in HashInputs :
    /\ ha' = [email |-> email, hash |-> hash_email(email)]
    /\ hb' = ha
    /\ op' = "hash_email"
    /\ arg' = email
    /\ out' = ha'.hash
    /\ UNCHANGED <<gen, prev, first, calls>>

\* Generator::default().set_default_image(arg), on the text Init drew
SetDrawnDefaultImage ==
  /\ op = "default"
  /\ Built(set_default_image(gen, arg), "set_default_image", arg)

\* Generator::default()
Init ==
  /\ gen = Default
  /\ prev = Default
  /\ op = "default"
  /\ arg = NoArg
  /\ out = <<>>
  /\ first = None
  /\ calls = 0
  /\ ha = NoCall
  /\ hb = NoCall

Next ==
  \/ SetBaseUrl
  \/ SetDefaultImage
  \/ SetForceDefault
  \/ SetImageSize
  \/ SetIncludeFileExtension
  \/ SetRating
  \/ QueryParameters
  \/ Generate

Spec == Init /\ [][Next]_vars

\* hash_email alone, on every pair of inputs
SpecHash == Init /\ [][HashEmail]_vars

\* the percent-encoding of one drawn default_image
InitEncode ==
  /\ gen = Default
  /\ prev = Default
  /\ op = "default"
  /\ arg \in EncodeTexts
  /\ out = <<>>
  /\ first = None
  /\ calls = 0
  /\ ha = NoCall
  /\ hb = NoCall

NextEncode == SetDrawnDefaultImage \/ QueryParameters

SpecEncode == InitEncode /\ [][NextEncode]_vars

(***************************************************************************)
(* What the properties below read results with: a reader of the query      *)
(* text and a percent-decoder (RFC 3986), neither of them in the source.   *)
(***************************************************************************)
RECURSIVE Count(_, _)
\* how often character c occurs in text
Count(text, c) ==
  IF text = <<>> THEN 0
  ELSE (IF Head(text) = c THEN 1 ELSE 0) + Count(Tail(text), c)

RECURSIVE SplitFrom(_, _, _)
SplitFrom(text, sep, cur) ==
  IF text = <<>> THEN <<cur>>
  ELSE IF Head(text) = sep THEN <<cur>> \o SplitFrom(Tail(text), sep, <<>>)
  ELSE SplitFrom(Tail(text), sep, Append(cur, Head(text)))

\* the pieces of text between the separators
Split(text, sep) == SplitFrom(text, sep, <<>>)

HexValue(c) ==
  IF c \in 48..57 THEN c - 48
  ELSE IF c \in 65..70 THEN c - 55
  ELSE IF c \in 97..102 THEN c - 87
  ELSE -1

IsEscapeAt(text, i) ==
  /\ text[i] = 37
  /\ i + 2 <= Len(text)
  /\ HexValue(text[i + 1]) >= 0
  /\ HexValue(text[i + 2]) >= 0

RECURSIVE UnescapeBytes(_)
\* %XY becomes the byte XY, every other character stands for itself
UnescapeBytes(text) ==
  IF text = <<>> THEN <<>>
  ELSE IF IsEscapeAt(text, 1)
  THEN <<16 * HexValue(text[2]) + HexValue(text[3])>>
       \o UnescapeBytes(SubSeq(text, 4, Len(text)))
  ELSE <<Head(text)>> \o UnescapeBytes(Tail(text))

RECURSIVE Utf8Decode(_)
\* the code points of a byte sequence (-1 where it is not UTF-8)
Utf8Decode(bytes) ==
  IF bytes = <<>> THEN <<>>
  ELSE IF bytes[1] < 128 THEN <<bytes[1]>> \o Utf8Decode(Tail(bytes))
  ELSE IF bytes[1] \in 192..223 /\ Len(bytes) >= 2
  THEN <<(bytes[1] - 192) * 64 + (bytes[2] - 128)>>
       \o Utf8Decode(SubSeq(bytes, 3, Len(bytes)))
  ELSE IF bytes[1] \in 224..239 /\ Len(bytes) >= 3
  THEN <<(bytes[1] - 224) * 4096 + (bytes[2] - 128) * 64 + (bytes[3] - 128)>>
       \o Utf8Decode(SubSeq(bytes, 4, Len(bytes)))
  ELSE <<-1>>

PercentDecode(text) == Utf8Decode(UnescapeBytes(text))

\* RFC 3986, 2.3: ALPHA / DIGIT / "-" / "." / "_" / "~"
IsUnreservedChar(c) ==
  \/ c \in 65..90
  \/ c \in 97..122
  \/ c \in 48..57
  \/ c \in {45, 46, 95, 126}

\* text holds only unreserved characters and well-formed %XY escapes
IsPercentEncoded(text) ==
  \A i \in 1..Len(text) :
    \/ IsUnreservedChar(text[i])
    \/ IsEscapeAt(text, i)
    \/ i > 1 /\ IsEscapeAt(text, i - 1)
    \/ i > 2 /\ IsEscapeAt(text, i - 2)

RECURSIVE ParseDigits(_, _)
ParseDigits(text, acc) ==
  IF text = <<>> THEN acc
  ELSE ParseDigits(Tail(text), 10 * acc + (Head(text) - 48))

\* the integer a decimal text stands for
ParseDecimal(text) ==
  IF text # <<>> /\ Head(text) = 45 THEN 0 - ParseDigits(Tail(text), 0)
  ELSE ParseDigits(text, 0)

\* key=value read back as <<key, value>>
KeyValue(fragment) ==
  IF Len(fragment) >= 2 /\ fragment[2] = 61
  THEN <<fragment[1], SubSeq(fragment, 3, Len(fragment))>>
  ELSE <<0, fragment>>

\* the keys 'd', 'f', 's', 'r' whose field is set in g, in that order
KeyIsSet(g, key) ==
  \/ key = 100 /\ g.default_image # None
  \/ key = 102 /\ g.force_default
  \/ key = 115 /\ g.image_size # None
  \/ key = 114 /\ g.rating # None

ExpectedKeys(g) ==
  LET IsSet(key) == KeyIsSet(g, key)
  IN  SelectSeq(<<100, 102, 115, 114>>, IsSet)

\* a fragment carries its field's value
FragmentCarries(g, fragment) ==
  LET kv == KeyValue(fragment)
  IN  \/ kv[1] = 100 /\ PercentDecode(kv[2]) = g.default_image[1]
      \/ kv[1] = 102 /\ kv[2] = <<121>>
      \/ kv[1] = 115 /\ ParseDecimal(PercentDecode(kv[2])) = g.image_size[1]
      \/ kv[1] = 114 /\ PercentDecode(kv[2]) = g.rating[1]

\* the fragments of a query text ("?a&b" gives <<a, b>>)
Fragments(query) ==
  IF query = <<>> THEN <<>> ELSE Split(Tail(query), 38)

\* query is exactly the fragments of g's set fields, in the fixed order
QueryMatches(g, query) ==
  LET keys  == ExpectedKeys(g)
      frags == Fragments(query)
  IN  /\ (keys = <<>>) = (query = <<>>)
      /\ query # <<>> => Head(query) = 63
      /\ Len(frags) = Len(keys)
      /\ \A i \in 1..Len(keys) :
           /\ KeyValue(frags[i])[1] = keys[i]
           /\ FragmentCarries(g, frags[i])

Fields ==
  {"base_url", "default_image", "force_default", "image_size",
   "include_file_extension", "rating"}

\* the field each setter targets
Target ==
  [set_base_url               |-> "base_url",
   set_default_image          |-> "default_image",
   set_force_default          |-> "force_default",
   set_image_size             |-> "image_size",
   set_include_file_extension |-> "include_file_extension",
   set_rating                 |-> "rating"]

IsSetter == op \in DOMAIN Target

\* the value a setter stores for its argument
Stored(name, a) ==
  IF name \in {"set_default_image", "set_image_size", "set_rating"}
  THEN Some(a)
  ELSE a

\* "ebff9105dce4954b1bdb57fdab079ff3"
HollloHash ==
  <<101, 98, 102, 102, 57, 49, 48, 53, 100, 99, 101, 52, 57, 53, 52, 98,
    49, 98, 100, 98, 53, 55, 102, 100, 97, 98, 48, 55, 57, 102, 102, 51>>

\* the digest of the empty text, "d41d8cd98f00b204e9800998ecf8427e"
EmptyHash ==
  <<100, 52, 49, 100, 56, 99, 100, 57, 56, 102, 48, 48, 98, 50, 48, 52,
    101, 57, 56, 48, 48, 57, 57, 56, 101, 99, 102, 56, 52, 50, 55, 101>>

\* "?d=identicon&f=y&s=128&r=pg"
AllOptionsQuery ==
  <<63, 100, 61, 105, 100, 101, 110, 116, 105, 99, 111, 110, 38, 102, 61,
    121, 38, 115, 61, 49, 50, 56, 38, 114, 61, 112, 103>>

\* "https://www.gravatar.com/avatar/ecd836ee843ff0ab75d4720bd40c2baf.jpg?d=identicon&f=y&s=128&r=pg"
AllOptionsUrl ==
  <<104, 116, 116, 112, 115, 58, 47, 47, 119, 119, 119, 46, 103, 114, 97,
    118, 97, 116, 97, 114, 46, 99, 111, 109, 47, 97, 118, 97, 116, 97, 114,
    47, 101, 99, 100, 56, 51, 54, 101, 101, 56, 52, 51, 102, 102, 48, 97,
    98, 55, 53, 100, 52, 55, 50, 48, 98, 100, 52, 48, 99, 50, 98, 97, 102,
    46, 106, 112, 103, 63, 100, 61, 105, 100, 101, 110, 116, 105, 99, 111,
    110, 38, 102, 61, 121, 38, 115, 61, 49, 50, 56, 38, 114, 61, 112, 103>>

\* every option of test_all_options, on the default host
AllOptions ==
  [base_url               |-> DefaultBaseUrl,
   default_image          |-> Some(Identicon),
   force_default          |-> TRUE,
   image_size             |-> Some(128),
   include_file_extension |-> TRUE,
   rating                 |-> Some(Pg)]

BothHashed == ha # NoCall /\ hb # NoCall

(***************************************************************************)
(* C1.  As claimed: inputs equal after trimming and lowercasing hash       *)
(* alike, and in particular e, "  " + e + "  " and uppercase(e) hash alike *)
(* for every text e.                                                       *)
(***************************************************************************)
C1_AsClaimed ==
  BothHashed =>
    /\ to_lowercase(Trim(ha.email)) = to_lowercase(Trim(hb.email))
         => ha.hash = hb.hash
    /\ ha.email = Pad(hb.email) => ha.hash = hb.hash
    /\ ha.email = to_uppercase(hb.email) => ha.hash = hb.hash

\* C1, amended: inputs equal after trimming and lowercasing hash alike; in
\* particular e and "  " + e + "  " hash alike for every e, and e and
\* uppercase(e) hash alike for every e whose upper-case form lowercases to
\* lowercase(e) (every ASCII text does; the sharp s, with upper case "SS",
\* does not).
C1_HashIgnoresPaddingAndCase ==
  BothHashed =>
    /\ to_lowercase(Trim(ha.email)) = to_lowercase(Trim(hb.email))
         => ha.hash = hb.hash
    /\ ha.email = Pad(hb.email) => ha.hash = hb.hash
    /\ (/\ ha.email = to_uppercase(hb.email)
        /\ to_lowercase(ha.email) = to_lowercase(hb.email))
         => ha.hash = hb.hash

\* the test's third call after its second one, on "helllo@holllo.cc"
C1_Witness ==
  /\ hb.email = Pad(HOLLLO_EMAIL)
  /\ ha.email = to_uppercase(HOLLLO_EMAIL)
  /\ ha.email # HOLLLO_EMAIL
  /\ hb.hash = HollloHash
  /\ ha.hash = HollloHash

(***************************************************************************)
(* C2.  query_parameters() is empty when no option is set, and otherwise   *)
(* "?" and the fragments of the set options joined by "&" in the order     *)
(* d, f, s, r, one fragment for each set option and none for the others;   *)
(* force_default alone gives "?f=y".                                       *)
(***************************************************************************)
C2_QueryInFixedOrder ==
  op = "query_parameters" =>
    /\ QueryMatches(gen, out)
    /\ ExpectedKeys(gen) = <<102>> => out = <<63, 102, 61, 121>>

C2_Witness ==
  /\ op = "query_parameters"
  /\ gen = AllOptions
  /\ out = AllOptionsQuery

(***************************************************************************)
(* C3.  generate(email) is "https://", base_url, "/avatar/", the hash of   *)
(* the email, ".jpg" if include_file_extension, then query_parameters();   *)
(* with another base_url only the host part differs.                       *)
(***************************************************************************)
AfterHost(url, g) ==
  SubSeq(url, Len(Scheme) + Len(g.base_url) + 1, Len(url))

C3_UrlAssembly ==
  op = "generate" =>
    LET host == Len(Scheme) + Len(gen.base_url)
        id   == host + Len(AvatarPath)
        ext  == IF gen.include_file_extension THEN Len(Jpg) ELSE 0
    IN  /\ SubSeq(out, 1, Len(Scheme)) = Scheme
        /\ SubSeq(out, Len(Scheme) + 1, host) = gen.base_url
        /\ SubSeq(out, host + 1, id) = AvatarPath
        /\ SubSeq(out, id + 1, id + 32) = hash_email(arg)
        /\ gen.include_file_extension
             => SubSeq(out, id + 33, id + 32 + ext) = Jpg
        /\ SubSeq(out, id + 33 + ext, Len(out)) = query_parameters(gen)
        /\ \A b \in BaseUrls :
             LET other == set_base_url(gen, b)
             IN  AfterHost(generate(other, arg), other) = AfterHost(out, gen)

C3_Witness ==
  /\ op = "generate"
  /\ arg = BAUKE_EMAIL
  /\ gen = AllOptions
  /\ out = AllOptionsUrl

(***************************************************************************)
(* C4.  A setter yields a value whose targeted field holds the argument    *)
(* and whose five other fields are those of the value it was applied to.   *)
(***************************************************************************)
C4_SetterFrame ==
  IsSetter =>
    /\ gen[Target[op]] = Stored(op, arg)
    /\ \A f \in Fields \ {Target[op]} : gen[f] = prev[f]

C4_Witness ==
  /\ op = "set_base_url"
  /\ arg = LibravatarBaseUrl
  /\ prev = AllOptions
  /\ gen = [AllOptions EXCEPT !.base_url = LibravatarBaseUrl]

(***************************************************************************)
(* C5.  As claimed: base_url is never empty in a configuration reached     *)
(* from the default one by setters.                                        *)
(***************************************************************************)
C5_AsClaimed == gen.base_url # <<>>

\* C5, amended: the default base_url is not empty, and base_url becomes
\* empty only by set_base_url called with the empty text, which is accepted.
C5_EmptyOnlyWhenSetEmpty ==
  /\ op = "default" => gen.base_url # <<>>
  /\ prev.base_url # <<>> /\ gen.base_url = <<>>
       => op = "set_base_url" /\ arg = <<>>

C5_Witness ==
  /\ op = "set_base_url"
  /\ arg = <<>>
  /\ prev.base_url = DefaultBaseUrl
  /\ gen.base_url = <<>>

(***************************************************************************)
(* C6.  The value of the d= fragment is percent-encoded (unreserved        *)
(* characters and %XY escapes only), and percent-decoding it gives         *)
(* default_image back.                                                     *)
(***************************************************************************)
C6_EncodeRoundTrip ==
  op = "query_parameters" /\ gen.default_image # None =>
    LET value == SubSeq(out, 4, Len(out))
    IN  /\ SubSeq(out, 1, 3) = <<63, 100, 61>>
        /\ IsPercentEncoded(value)
        /\ PercentDecode(value) = gen.default_image[1]

\* default_image "a/ " gives "?d=a%2F%20"
C6_Witness ==
  /\ op = "query_parameters"
  /\ gen.default_image = Some(<<97, 47, 32>>)
  /\ out = <<63, 100, 61, 97, 37, 50, 70, 37, 50, 48>>

(***************************************************************************)
(* C7.  query_parameters() on the default configuration is empty;          *)
(* query_parameters() and generate() leave the configuration as it was,    *)
(* and a repeated query_parameters() returns what the first call returned. *)
(***************************************************************************)
C7_QueryIsRepeatable ==
  /\ op \in {"query_parameters", "generate"} => gen = prev
  /\ op = "query_parameters" => first # None /\ out = first[1]
  /\ op = "query_parameters" /\ gen = Default => out = <<>>

\* a repeated call, with a generate() call made in between
C7_Witness ==
  /\ op = "generate"
  /\ calls >= 2
  /\ gen.force_default
  /\ first = Some(<<63, 102, 61, 121>>)

(***************************************************************************)
(* C8.  hash_email returns 32 characters, each of 0-9 or a-f, for every    *)
(* input, the empty and the whitespace-only text included.                 *)
(***************************************************************************)
C8_HashIs32LowerHex ==
  op = "hash_email" =>
    /\ Len(out) = 32
    /\ \A i \in 1..Len(out) : out[i] \in (48..57) \cup (97..102)

\* the empty text, then a single space
C8_Witness ==
  /\ op = "hash_email"
  /\ hb.email = <<>>
  /\ ha.email = <<32>>
  /\ hb.hash = EmptyHash
  /\ out = EmptyHash

(***************************************************************************)
(* C9.  A non-empty query_parameters() result has one "?", its first       *)
(* character, and one "&" less than there are set options, whatever the    *)
(* default_image and rating texts and the image_size are.                  *)
(***************************************************************************)
C9_NoInjectedSeparator ==
  op = "query_parameters" /\ out # <<>> =>
    /\ Head(out) = 63
    /\ Count(out, 63) = 1
    /\ Count(out, 38) = Len(ExpectedKeys(gen)) - 1

\* default_image "&", rating "&=?# " and a negative size: two separators
C9_Witness ==
  /\ op = "query_parameters"
  /\ gen.default_image = Some(<<38>>)
  /\ gen.rating = Some(<<38, 61, 63, 35, 32>>)
  /\ gen.image_size = Some(-1)
  /\ ~gen.force_default
  /\ Count(out, 38) = 2

(***************************************************************************)
(* C10.  Once default_image, image_size or rating is set, no setter makes  *)
(* it absent again: it keeps its value until its own setter replaces it,   *)
(* and every query_parameters() result carries its fragment; force_default *)
(* and include_file_extension go back to false only by their own setter.   *)
(***************************************************************************)
Valued == {"default_image", "image_size", "rating"}

C10_SetOptionsStay ==
  /\ \A f \in Valued :
       prev[f] # None =>
         /\ gen[f] # None
         /\ ((IsSetter /\ Target[op] = f) \/ gen[f] = prev[f])
  /\ op = "query_parameters" =>
       \A key \in {100, 115, 114} :
         KeyIsSet(gen, key) =>
           \E i \in 1..Len(Fragments(out)) :
             /\ KeyValue(Fragments(out)[i])[1] = key
             /\ FragmentCarries(gen, Fragments(out)[i])
  /\ \A f \in {"force_default", "include_file_extension"} :
       prev[f] /\ ~gen[f] => IsSetter /\ Target[op] = f /\ arg = FALSE

\* f=y is taken back while d=, s= and r= stay
C10_Witness ==
  /\ op = "set_force_default"
  /\ arg = FALSE
  /\ prev = AllOptions
  /\ gen = [AllOptions EXCEPT !.force_default = FALSE]

====
